---- MODULE Spec2Model ----
(***************************************************************************)
(* A model of nbitmask's BitMask<T>: a vector of storage words plus a      *)
(* logical bit count, with single-bit access, bulk set, boolean operators, *)
(* shifts and rendering.  Words are naturals below 2^W; every word         *)
(* operation is computed arithmetically the way the primitive integer      *)
(* type computes it.                                                       *)
(***************************************************************************)
EXTENDS Integers, Sequences, FiniteSets, TLC

\* Model bounds: the word width (T::SIZE, 8..128 in the crate) scaled down,
\* and the largest logical length a mask is constructed with.
W == 2
MaxLen == 4

ZERO == 0
ONE == 1

\* ------------------------------------------------------------------------
\* Storage word arithmetic (unsigned, width W)
\* ------------------------------------------------------------------------
Pow2(k) == 2 ^ k

Bit(x, k) == (x \div Pow2(k)) % 2

RECURSIVE FromBits(_, _)
FromBits(f, k) ==
    IF k = W THEN 0
    ELSE (IF f[k] THEN Pow2(k) ELSE 0) + FromBits(f, k + 1)

WordAnd(x, y) == FromBits([k \in 0..W-1 |-> Bit(x, k) = 1 /\ Bit(y, k) = 1], 0)
WordOr(x, y)  == FromBits([k \in 0..W-1 |-> Bit(x, k) = 1 \/ Bit(y, k) = 1], 0)
WordXor(x, y) == FromBits([k \in 0..W-1 |-> Bit(x, k) # Bit(y, k)], 0)
WordNot(x)    == (Pow2(W) - 1) - x
\* x << k and x >> k for 0 <= k < W (the only amounts the code uses)
WordShl(x, k) == (x * Pow2(k)) % Pow2(W)
WordShr(x, k) == x \div Pow2(k)

\* ------------------------------------------------------------------------
\* BitMask { mask: Vec<T>, size: usize } as a record [mask, size]
\* ------------------------------------------------------------------------

\* Vec::get(block_index).map_or(T::ZERO, ..): a missing word reads as ZERO.
\* block_index is 0-based; sequences are 1-based.
block(m, block_index) ==
    IF block_index >= 0 /\ block_index < Len(m.mask)
    THEN m.mask[block_index + 1] ELSE ZERO

zeros(size) ==
    [mask |-> [i \in 1..((size \div W) + 1) |-> ZERO], size |-> size]

set_all(m, value) ==
    LET s == IF value THEN WordNot(ZERO) ELSE ZERO
        filled == [i \in 1..Len(m.mask) |-> s]
        last == m.size \div W
        offset == m.size % W
    IN  [m EXCEPT !.mask =
            IF last < Len(filled)
            THEN [filled EXCEPT ![last + 1] = WordAnd(@, WordShl(ONE, offset) - ONE)]
            ELSE filled]

ones(size) == set_all(zeros(size), TRUE)

\* A clearing branch that forgets the complement of the bit.
set_clear_without_not(m, index, value) ==
    LET i == index \div W
        offset == index % W
    IN  IF i < Len(m.mask)
        THEN [res |-> "Ok",
              m |-> [m EXCEPT !.mask[i + 1] =
                        IF value THEN WordOr(@, WordShl(ONE, offset))
                        ELSE WordAnd(@, WordShl(ONE, offset))]]
        ELSE [res |-> "IndexOutOfBounds", m |-> m]

set(m, index, value) ==
    LET i == index \div W
        offset == index % W
    IN  IF i < Len(m.mask)
        THEN [res |-> "Ok",
              m |-> [m EXCEPT !.mask[i + 1] =
                        IF value THEN WordOr(@, WordShl(ONE, offset))
                        ELSE WordAnd(@, WordNot(WordShl(ONE, offset)))]]
        ELSE [res |-> "IndexOutOfBounds", m |-> m]

get(m, index) ==
    LET i == index \div W
        offset == index % W
    IN  IF i < Len(m.mask)
        THEN [res |-> "Ok",
              val |-> WordAnd(WordShr(m.mask[i + 1], offset), ONE) = ONE]
        ELSE [res |-> "IndexOutOfBounds", val |-> FALSE]

\* PartialEq::eq
eq(a, b) == a.mask = b.mask /\ a.size = b.size

\* ------------------------------------------------------------------------
\* Boolean operators
\* ------------------------------------------------------------------------
max(x, y) == IF x >= y THEN x ELSE y

\* An OR that sizes its result by the shorter operand.
bitor_min_length(lhs, rhs) ==
    LET res == zeros(IF lhs.size <= rhs.size THEN lhs.size ELSE rhs.size)
    IN  [res EXCEPT !.mask = [i \in 1..Len(res.mask) |->
            WordOr(block(lhs, i - 1), block(rhs, i - 1))]]

bitor(lhs, rhs) ==
    LET res == zeros(max(lhs.size, rhs.size))
    IN  [res EXCEPT !.mask = [i \in 1..Len(res.mask) |->
            WordOr(block(lhs, i - 1), block(rhs, i - 1))]]

\* Vec::resize(new_len, T::ZERO): truncates or zero-extends
resize(v, new_len) ==
    [i \in 1..new_len |-> IF i <= Len(v) THEN v[i] ELSE ZERO]

\* An OR-assign that updates the length without growing the words.
bitor_assign_without_resize(lhs, rhs) ==
    [mask |-> [i \in 1..Len(lhs.mask) |-> WordOr(lhs.mask[i], block(rhs, i - 1))],
     size |-> max(lhs.size, rhs.size)]

bitor_assign(lhs, rhs) ==
    LET grown == resize(lhs.mask, max(Len(lhs.mask), Len(rhs.mask)))
    IN  [mask |-> [i \in 1..Len(grown) |-> WordOr(grown[i], block(rhs, i - 1))],
         size |-> max(lhs.size, rhs.size)]

bitand(lhs, rhs) ==
    LET res == zeros(max(lhs.size, rhs.size))
    IN  [res EXCEPT !.mask = [i \in 1..Len(res.mask) |->
            WordAnd(block(lhs, i - 1), block(rhs, i - 1))]]

\* An AND-assign that grows the left operand the way OR-assign does.
bitand_assign_growing(lhs, rhs) ==
    LET grown == resize(lhs.mask, max(Len(lhs.mask), Len(rhs.mask)))
    IN  [mask |-> [i \in 1..Len(grown) |-> WordAnd(grown[i], block(rhs, i - 1))],
         size |-> max(lhs.size, rhs.size)]

bitand_assign(lhs, rhs) ==
    [lhs EXCEPT !.mask = [i \in 1..Len(lhs.mask) |->
        WordAnd(lhs.mask[i], block(rhs, i - 1))]]

\* XOR, NOT and the shifts follow the design text (sections 4.7 and 4.8).
bitxor(lhs, rhs) ==
    LET res == zeros(max(lhs.size, rhs.size))
    IN  [res EXCEPT !.mask = [i \in 1..Len(res.mask) |->
            WordXor(block(lhs, i - 1), block(rhs, i - 1))]]

bitxor_assign(lhs, rhs) ==
    LET grown == resize(lhs.mask, max(Len(lhs.mask), Len(rhs.mask)))
    IN  [mask |-> [i \in 1..Len(grown) |-> WordXor(grown[i], block(rhs, i - 1))],
         size |-> max(lhs.size, rhs.size)]

\* every word inverted, then the tail mask of set_all at the result's length
not(m) ==
    LET inverted == [i \in 1..Len(m.mask) |-> WordNot(m.mask[i])]
        last == m.size \div W
        offset == m.size % W
    IN  [m EXCEPT !.mask =
            IF last < Len(inverted)
            THEN [inverted EXCEPT ![last + 1] = WordAnd(@, WordShl(ONE, offset) - ONE)]
            ELSE inverted]

\* ------------------------------------------------------------------------
\* Shifts: destination word i from source words i + n/W and i + n/W + 1
\* (right), or from word i itself and word i - n/W - 1 (left).  A shift by
\* the full word width is never performed: n % W = 0 contributes ZERO.
\* ------------------------------------------------------------------------
shr(m, n) ==
    LET q == n \div W
        r == n % W
    IN  [m EXCEPT !.mask = [i \in 1..Len(m.mask) |->
            WordOr(WordShr(block(m, (i - 1) + q), r),
                   IF r = 0 THEN ZERO
                   ELSE WordShl(block(m, (i - 1) + q + 1), W - r))]]

shl(m, n) ==
    LET q == n \div W
        r == n % W
    IN  [m EXCEPT !.mask = [i \in 1..Len(m.mask) |->
            WordOr(IF n >= W THEN ZERO ELSE WordShl(block(m, i - 1), r),
                   IF r = 0 THEN ZERO
                   ELSE WordShr(block(m, (i - 1) - q - 1), W - r))]]

\* ------------------------------------------------------------------------
\* Display::fmt
\* ------------------------------------------------------------------------
min(x, y) == IF x <= y THEN x ELSE y

Reverse(s) == [i \in 1..Len(s) |-> s[Len(s) + 1 - i]]

\* format!("{:#0w$b}", m, w = T::SIZE + 2): "0b" then W binary digits,
\* most significant first
format_binary(x) ==
    <<"0", "b">> \o [i \in 1..W |-> IF Bit(x, W - i) = 1 THEN "1" ELSE "0"]

\* The loop of fmt from word k (1-based) with `rem` bits left.  A negative
\* rem wraps in `as usize` and the slice start is out of range: a panic.
RECURSIVE fmt_from(_, _, _)
fmt_from(m, k, rem) ==
    IF k > Len(m.mask) THEN <<>>
    ELSE LET size == min(rem, W)
             formatted == format_binary(m.mask[k])
             rest == fmt_from(m, k + 1, rem - W)
         IN  IF size < 0 \/ rest = <<"panic">> THEN <<"panic">>
             ELSE Reverse(SubSeq(formatted, (W + 2 - size) + 1, W + 2)) \o rest

\* A rendering that emits every allocated word at full width.
fmt_full_words(m) == fmt_from(m, 1, Len(m.mask) * W)

fmt(m) == fmt_from(m, 1, m.size)

\* ------------------------------------------------------------------------
\* Aggregate queries
\* ------------------------------------------------------------------------
\* $t::count_ones of one storage word
word_count_ones(x) == Cardinality({k \in 0..W-1 : Bit(x, k) = 1})

RECURSIVE sum(_)
sum(s) == IF s = <<>> THEN 0 ELSE Head(s) + sum(Tail(s))

count_ones(m) == sum([i \in 1..Len(m.mask) |-> word_count_ones(m.mask[i])])

\* ------------------------------------------------------------------------
\* Serialization (serde.rs).  The byte of the transport is scaled down with
\* the word: one byte carries one bit, so a word has W bytes.
\* ------------------------------------------------------------------------
BytesPerWord == W

\* A byte order that puts the least significant byte first.
to_le_bytes(x) == [i \in 1..BytesPerWord |-> Bit(x, i - 1)]

to_be_bytes(x) == [i \in 1..BytesPerWord |-> Bit(x, BytesPerWord - i)]

RECURSIVE be_value(_)
be_value(bytes) ==
    IF bytes = <<>> THEN 0
    ELSE Head(bytes) * Pow2(Len(bytes) - 1) + be_value(Tail(bytes))

\* value.try_into() fails unless the slice has exactly the word's byte count
from_be_bytes(bytes) ==
    IF Len(bytes) = BytesPerWord
    THEN [res |-> "Ok", word |-> be_value(bytes)]
    ELSE [res |-> "DeserializationFailed", word |-> ZERO]

\* The text encoding, scaled like the byte: a symbol carries two bytes, and
\* an incomplete last group is zero-filled and marked with the pad "=".
Alphabet == <<"A", "B", "C", "D">>
symbol_value(c) == CHOOSE v \in 0..3 : Alphabet[v + 1] = c
is_symbol(c) == \E v \in 0..3 : Alphabet[v + 1] = c

RECURSIVE encode(_)
encode(bytes) ==
    IF bytes = <<>> THEN <<>>
    ELSE IF Len(bytes) = 1 THEN <<Alphabet[2 * bytes[1] + 1], "=">>
    ELSE <<Alphabet[2 * bytes[1] + bytes[2] + 1]>> \o encode(Tail(Tail(bytes)))

RECURSIVE decode(_)
decode(t) ==
    IF t = <<>> THEN [ok |-> TRUE, bytes |-> <<>>]
    ELSE IF ~is_symbol(t[1]) THEN [ok |-> FALSE, bytes |-> <<>>]
    ELSE IF Len(t) >= 2 /\ t[2] = "="
         THEN IF Len(t) = 2
              THEN [ok |-> TRUE, bytes |-> <<symbol_value(t[1]) \div 2>>]
              ELSE [ok |-> FALSE, bytes |-> <<>>]
    ELSE LET rest == decode(Tail(t))
         IN  IF rest.ok
             THEN [ok |-> TRUE,
                   bytes |-> <<symbol_value(t[1]) \div 2, symbol_value(t[1]) % 2>>
                             \o rest.bytes]
             ELSE rest

RECURSIVE concat(_)
concat(ss) == IF ss = <<>> THEN <<>> ELSE Head(ss) \o concat(Tail(ss))

\* slice::chunks(n): groups of n, the last one possibly shorter
RECURSIVE chunks(_, _)
chunks(bytes, n) ==
    IF bytes = <<>> THEN <<>>
    ELSE <<SubSeq(bytes, 1, min(n, Len(bytes)))>>
         \o chunks(SubSeq(bytes, n + 1, Len(bytes)), n)

\* From<&BitMask<T>> for BitMaskSerializable
from(m) ==
    [mask |-> encode(concat([i \in 1..Len(m.mask) |-> to_be_bytes(m.mask[i])])),
     length |-> m.size]

\* TryFrom<BitMaskSerializable> for BitMask<T>
try_from(record) ==
    LET decoded == decode(record.mask)
        parsed == [i \in 1..Len(chunks(decoded.bytes, BytesPerWord)) |->
                      from_be_bytes(chunks(decoded.bytes, BytesPerWord)[i])]
    IN  IF ~decoded.ok \/ \E i \in 1..Len(parsed) : parsed[i].res # "Ok"
        THEN [res |-> "DeserializationFailed", m |-> [mask |-> <<>>, size |-> 0]]
        ELSE [res |-> "Ok",
              m |-> [mask |-> [i \in 1..Len(parsed) |-> parsed[i].word],
                     size |-> record.length]]

\* ------------------------------------------------------------------------
\* State
\* ------------------------------------------------------------------------
\* No mask: the placeholder for an operand or result that an operation
\* does not have (a real mask always has at least one word).
None == [mask |-> <<>>, size |-> 0]
\* No transport record held.
NoRecord == [mask |-> <<>>, length |-> 0]

\* Indices and shift amounts reach past the capacity of the largest mask.
Capacity == ((MaxLen \div W) + 1) * W
Indices == 0..Capacity
Shifts == 0..(Capacity + 1)

\* Operands: every mask built by zeros(n) followed by successful set calls.
RECURSIVE set_bits(_, _)
set_bits(m, S) ==
    IF S = {} THEN m
    ELSE LET i == CHOOSE x \in S : TRUE
         IN  set_bits(set(m, i, TRUE).m, S \ {i})

Operands == { set_bits(zeros(n), S) : n \in 0..MaxLen, S \in SUBSET (0..(Capacity - 1)) }

VARIABLES
    self,       \* the mask the operations act on
    old,        \* self before the last operation
    op,         \* the last operation
    index,      \* its index or shift amount
    value,      \* its boolean argument
    lhs, rhs,   \* the operands of the last binary operator
    res,        \* "Ok" / "IndexOutOfBounds" of get and set
    val,        \* the bit get returned
    out,        \* the mask a non-mutating operator returned
    text,       \* the string fmt produced
    mask_copy,  \* the clone taken before `mask <<= n` (tests: test_example)
    count,      \* the number count_ones returned
    bms         \* the BitMaskSerializable record the last serialization made

vars == <<self, old, op, index, value, lhs, rhs, res, val, out, text, mask_copy,
          count, bms>>

Init ==
    /\ \E size \in 0..MaxLen, one \in BOOLEAN :
          /\ self = IF one THEN ones(size) ELSE zeros(size)
          /\ op = IF one THEN "ones" ELSE "zeros"
          /\ index = size
          /\ value = one
    /\ old = None
    /\ lhs = None /\ rhs = None
    /\ res = "-" /\ val = FALSE /\ out = None /\ text = <<>>
    /\ mask_copy = None
    /\ count = 0 /\ bms = NoRecord

\* A call is made when no earlier call's arguments and results are held:
\* right after construction, or after they were dropped.
Ready == op \in {"zeros", "ones", "drop"}

\* what an operation without that argument or result leaves behind
NoArgs == index' = 0 /\ value' = FALSE
NoOperands == lhs' = None /\ rhs' = None
NoResult == res' = "-" /\ val' = FALSE /\ out' = None /\ text' = <<>>
NoExtra == count' = 0 /\ bms' = NoRecord

Set ==
    /\ Ready
    /\ \E i \in Indices, v \in BOOLEAN :
        LET r == set(self, i, v)
        IN  /\ self' = r.m /\ old' = self
            /\ op' = "set" /\ index' = i /\ value' = v
            /\ res' = r.res /\ val' = FALSE /\ out' = None /\ text' = <<>>
            /\ NoOperands /\ mask_copy' = None /\ NoExtra

Get ==
    /\ Ready
    /\ \E i \in Indices :
        LET r == get(self, i)
        IN  /\ self' = self /\ old' = self
            /\ op' = "get" /\ index' = i /\ value' = FALSE
            /\ res' = r.res /\ val' = r.val /\ out' = None /\ text' = <<>>
            /\ NoOperands /\ mask_copy' = None /\ NoExtra

SetAll ==
    /\ Ready
    /\ \E v \in BOOLEAN :
        /\ self' = set_all(self, v) /\ old' = self
        /\ op' = "set_all" /\ index' = 0 /\ value' = v
        /\ NoResult /\ NoOperands /\ mask_copy' = None /\ NoExtra

\* lhs | rhs, self on either side
BitOr ==
    /\ Ready
    /\ \E r \in Operands, swap \in BOOLEAN :
        /\ lhs' = (IF swap THEN r ELSE self)
        /\ rhs' = (IF swap THEN self ELSE r)
        /\ out' = bitor(lhs', rhs')
        /\ self' = self /\ old' = self
        /\ op' = "bitor" /\ NoArgs
        /\ res' = "-" /\ val' = FALSE /\ text' = <<>>
        /\ mask_copy' = None /\ NoExtra

\* self |= rhs
BitOrAssign ==
    /\ Ready
    /\ \E r \in Operands :
        /\ lhs' = self /\ rhs' = r
        /\ self' = bitor_assign(self, r) /\ old' = self
        /\ op' = "bitor_assign" /\ NoArgs /\ NoResult
        /\ mask_copy' = None /\ NoExtra

\* lhs & rhs, self on either side
BitAnd ==
    /\ Ready
    /\ \E r \in Operands, swap \in BOOLEAN :
        /\ lhs' = (IF swap THEN r ELSE self)
        /\ rhs' = (IF swap THEN self ELSE r)
        /\ out' = bitand(lhs', rhs')
        /\ self' = self /\ old' = self
        /\ op' = "bitand" /\ NoArgs
        /\ res' = "-" /\ val' = FALSE /\ text' = <<>>
        /\ mask_copy' = None /\ NoExtra

\* self &= rhs
BitAndAssign ==
    /\ Ready
    /\ \E r \in Operands :
        /\ lhs' = self /\ rhs' = r
        /\ self' = bitand_assign(self, r) /\ old' = self
        /\ op' = "bitand_assign" /\ NoArgs /\ NoResult
        /\ mask_copy' = None /\ NoExtra

\* lhs ^ rhs, self on either side
BitXor ==
    /\ Ready
    /\ \E r \in Operands, swap \in BOOLEAN :
        /\ lhs' = (IF swap THEN r ELSE self)
        /\ rhs' = (IF swap THEN self ELSE r)
        /\ out' = bitxor(lhs', rhs')
        /\ self' = self /\ old' = self
        /\ op' = "bitxor" /\ NoArgs
        /\ res' = "-" /\ val' = FALSE /\ text' = <<>>
        /\ mask_copy' = None /\ NoExtra

\* self ^= rhs
BitXorAssign ==
    /\ Ready
    /\ \E r \in Operands :
        /\ lhs' = self /\ rhs' = r
        /\ self' = bitxor_assign(self, r) /\ old' = self
        /\ op' = "bitxor_assign" /\ NoArgs /\ NoResult
        /\ mask_copy' = None /\ NoExtra

\* !&self
Not ==
    /\ Ready
    /\ out' = not(self)
    /\ self' = self /\ old' = self
    /\ op' = "not" /\ NoArgs /\ NoOperands
    /\ res' = "-" /\ val' = FALSE /\ text' = <<>>
    /\ mask_copy' = None /\ NoExtra

\* !&(!&self): the complement of the mask Not just returned
NotNot ==
    /\ op = "not"
    /\ out' = not(out)
    /\ self' = self /\ old' = self
    /\ op' = "not_not" /\ NoArgs /\ NoOperands
    /\ res' = "-" /\ val' = FALSE /\ text' = <<>>
    /\ mask_copy' = None /\ NoExtra

Shr ==
    /\ Ready
    /\ \E n \in Shifts :
        /\ out' = shr(self, n)
        /\ self' = self /\ old' = self
        /\ op' = "shr" /\ index' = n /\ value' = FALSE
        /\ res' = "-" /\ val' = FALSE /\ text' = <<>>
        /\ NoOperands /\ mask_copy' = None /\ NoExtra

\* self >>= n; the clone taken before a preceding `self <<= n` is kept
ShrAssign ==
    \E n \in Shifts :
        /\ Ready \/ (op = "shl_assign" /\ index = n)
        /\ self' = shr(self, n) /\ old' = self
        /\ op' = "shr_assign" /\ index' = n /\ value' = FALSE
        /\ NoResult /\ NoOperands
        /\ mask_copy' = IF op = "shl_assign" /\ index = n THEN mask_copy ELSE None
        /\ NoExtra

Shl ==
    /\ Ready
    /\ \E n \in Shifts :
        /\ out' = shl(self, n)
        /\ self' = self /\ old' = self
        /\ op' = "shl" /\ index' = n /\ value' = FALSE
        /\ res' = "-" /\ val' = FALSE /\ text' = <<>>
        /\ NoOperands /\ mask_copy' = None /\ NoExtra

ShlAssign ==
    /\ Ready
    /\ \E n \in Shifts :
        /\ self' = shl(self, n) /\ old' = self
        /\ op' = "shl_assign" /\ index' = n /\ value' = FALSE
        /\ NoResult /\ NoOperands
        /\ mask_copy' = self /\ NoExtra

Fmt ==
    /\ Ready
    /\ text' = fmt(self)
    /\ self' = self /\ old' = self
    /\ op' = "fmt" /\ NoArgs /\ NoOperands
    /\ res' = "-" /\ val' = FALSE /\ out' = None
    /\ mask_copy' = None /\ NoExtra

CountOnes ==
    /\ Ready
    /\ count' = count_ones(self)
    /\ self' = self /\ old' = self
    /\ op' = "count_ones" /\ NoArgs /\ NoOperands /\ NoResult
    /\ mask_copy' = None /\ bms' = NoRecord

\* BitMaskSerializable::from(&self)
Serialize ==
    /\ Ready
    /\ bms' = from(self)
    /\ self' = self /\ old' = self
    /\ op' = "serialize" /\ NoArgs /\ NoOperands /\ NoResult
    /\ mask_copy' = None /\ count' = 0

\* BitMask::try_from of the record Serialize just made
Deserialize ==
    /\ op = "serialize"
    /\ LET r == try_from(bms)
       IN  /\ res' = r.res
           /\ out' = r.m
    /\ self' = self /\ old' = self
    /\ op' = "deserialize" /\ NoArgs /\ NoOperands
    /\ val' = FALSE /\ text' = <<>>
    /\ mask_copy' = None /\ count' = 0 /\ bms' = bms

\* the arguments and results of the last call go out of scope; self stays
Drop ==
    /\ ~Ready
    /\ self' = self /\ old' = None
    /\ op' = "drop" /\ NoArgs /\ NoOperands /\ NoResult
    /\ mask_copy' = None /\ NoExtra

Next ==
    \/ Set \/ Get \/ SetAll
    \/ BitOr \/ BitOrAssign \/ BitAnd \/ BitAndAssign \/ BitXor \/ BitXorAssign
    \/ Not \/ NotNot
    \/ Shr \/ ShrAssign \/ Shl \/ ShlAssign
    \/ Fmt
    \/ CountOnes
    \/ Serialize \/ Deserialize
    \/ Drop

Spec == Init /\ [][Next]_vars

\* ------------------------------------------------------------------------
\* Properties
\* ------------------------------------------------------------------------
\* the bit get reads at index i
bit(m, i) == get(m, i).val
\* the bit of an operand, counting 0 at or beyond the operand's own length
logical_bit(m, i) == i < m.size /\ bit(m, i)
\* the bit of an operand, counting 0 beyond its allocated words
stored_bit(m, i) == i < Len(m.mask) * W /\ bit(m, i)

\* C1: get(i) and set(i, v) return IndexOutOfBounds for every i >= length,
\* also inside the last allocated word, a failed set changes nothing, and
\* both succeed for every i < length.
C1_IndexOutOfBounds ==
    /\ op = "set" =>
          IF index >= old.size
          THEN res = "IndexOutOfBounds" /\ self = old
          ELSE res = "Ok"
    /\ op = "get" =>
          IF index >= self.size THEN res = "IndexOutOfBounds" ELSE res = "Ok"

\* C2: after a successful set(i, v) with i < length, get(i) returns v, every
\* other get(j), j < length, returns what it returned before, and the length
\* and the number of words are unchanged.
C2_SetThenGet ==
    (op = "set" /\ index < old.size) =>
        /\ res = "Ok"
        /\ get(self, index) = [res |-> "Ok", val |-> value]
        /\ \A j \in 0..(old.size - 1) : j # index => get(self, j) = get(old, j)
        /\ self.size = old.size
        /\ Len(self.mask) = Len(old.mask)

\* a bit in the second word is cleared while other bits stay set
C2_Witness ==
    /\ op = "set" /\ index < old.size /\ index >= W /\ ~value
    /\ bit(old, index)
    /\ \E j \in 0..(old.size - 1) : j # index /\ j \div W = index \div W /\ bit(old, j)

\* C3: OR, XOR (both forms) and non-mutating AND give length
\* max(a.length, b.length) and bit i = a_i op b_i for every i below it, an
\* operand's bit at or beyond its own length counting as 0; the in-place
\* result equals the non-mutating one.
C3_BinaryOperators ==
    /\ op \in {"bitor", "bitxor", "bitand"} =>
          /\ out.size = max(lhs.size, rhs.size)
          /\ \A i \in 0..(out.size - 1) :
                bit(out, i) =
                   CASE op = "bitor"  -> (logical_bit(lhs, i) \/ logical_bit(rhs, i))
                     [] op = "bitxor" -> (logical_bit(lhs, i) # logical_bit(rhs, i))
                     [] op = "bitand" -> (logical_bit(lhs, i) /\ logical_bit(rhs, i))
    /\ op \in {"bitor_assign", "bitxor_assign"} =>
          /\ self.size = max(lhs.size, rhs.size)
          /\ \A i \in 0..(self.size - 1) :
                bit(self, i) =
                   IF op = "bitor_assign"
                   THEN (logical_bit(lhs, i) \/ logical_bit(rhs, i))
                   ELSE (logical_bit(lhs, i) # logical_bit(rhs, i))
          /\ eq(self, IF op = "bitor_assign" THEN bitor(lhs, rhs) ELSE bitxor(lhs, rhs))

\* C4: a &= b keeps a's length and number of words whatever b's length, and
\* afterwards bit i of a is (old a_i) AND (b_i) for every i < a.length, b_i
\* counting as 0 beyond b's allocated words.
C4_AndAssign ==
    op = "bitand_assign" =>
        /\ self.size = old.size
        /\ Len(self.mask) = Len(old.mask)
        /\ \A i \in 0..(old.size - 1) :
              bit(self, i) = (bit(old, i) /\ stored_bit(rhs, i))

\* b is longer than a, and the AND clears one of a's bits and keeps another
C4_Witness ==
    /\ op = "bitand_assign"
    /\ rhs.size > old.size /\ Len(rhs.mask) > Len(old.mask)
    /\ \E i, j \in 0..(old.size - 1) :
          /\ bit(old, i) /\ ~bit(self, i)
          /\ bit(old, j) /\ bit(self, j)

\* C5: shift-right by n keeps the length L and gives bit i = source bit i+n
\* when i+n < L and 0 otherwise, for every n >= 0; the in-place form gives
\* the same mask as the non-mutating form.
C5_ShiftRight ==
    /\ op = "shr" =>
          /\ out.size = old.size
          /\ \A i \in 0..(old.size - 1) :
                bit(out, i) = (i + index < old.size /\ bit(old, i + index))
    /\ op = "shr_assign" =>
          /\ self.size = old.size
          /\ \A i \in 0..(old.size - 1) :
                bit(self, i) = (i + index < old.size /\ bit(old, i + index))
          /\ eq(self, shr(old, index))

\* C6: shift-left by n keeps the length L and gives bit j = source bit j-n
\* when j >= n and 0 otherwise, for every n >= 0.
C6_ShiftLeft ==
    /\ op = "shl" =>
          /\ out.size = old.size
          /\ \A j \in 0..(old.size - 1) :
                bit(out, j) = (j >= index /\ bit(old, j - index))
    /\ op = "shl_assign" =>
          /\ self.size = old.size
          /\ \A j \in 0..(old.size - 1) :
                bit(self, j) = (j >= index /\ bit(old, j - index))

\* C7: for n <= L, m <<= n then m >>= n gives length L, bit i = m's original
\* bit i for i < L-n and 0 for L-n <= i < L.
C7_ShlThenShr ==
    (op = "shr_assign" /\ mask_copy # None /\ index <= mask_copy.size) =>
        /\ self.size = mask_copy.size
        /\ \A i \in 0..(mask_copy.size - 1) :
              bit(self, i) = (i < mask_copy.size - index /\ bit(mask_copy, i))

\* C8: NOT(NOT(m)) == m under the mask equality for every reachable m, and
\* NOT(m) has m's length with bit i inverted for every i < length.
C8_DoubleComplement ==
    /\ op = "not" =>
          /\ out.size = self.size
          /\ \A i \in 0..(self.size - 1) : bit(out, i) = ~bit(self, i)
    /\ op = "not_not" => eq(out, self)

\* C9 as stated: m OR zeros(n) == m and zeros(n) OR m == m for any m and
\* any size n, under the equality that compares words and length.
C9_OrZerosAnySize ==
    op = "bitor" =>
        /\ rhs = zeros(rhs.size) => eq(out, lhs)
        /\ lhs = zeros(lhs.size) => eq(out, rhs)

\* C9 amended: m OR zeros(n) == m and zeros(n) OR m == m for any m and any
\* size n <= m.length.
C9_OrZerosIdentity ==
    op = "bitor" =>
        /\ (rhs = zeros(rhs.size) /\ rhs.size <= lhs.size) => eq(out, lhs)
        /\ (lhs = zeros(lhs.size) /\ lhs.size <= rhs.size) => eq(out, rhs)

\* zeros(n) with 0 < n < m.length on the left of a mask that has bits set
C9_Witness ==
    /\ op = "bitor"
    /\ lhs = zeros(lhs.size) /\ lhs.size > 0 /\ lhs.size < rhs.size
    /\ Len(lhs.mask) < Len(rhs.mask)
    /\ rhs # zeros(rhs.size)
    /\ eq(out, rhs)

\* C10: rendering gives exactly `length` characters, the k-th being '1' when
\* get(k) is true and '0' otherwise; nothing is emitted for the reserved
\* extra word or for tail padding.
C10_Render ==
    op = "fmt" =>
        /\ Len(text) = self.size
        /\ \A k \in 0..(self.size - 1) :
              text[k + 1] = IF bit(self, k) THEN "1" ELSE "0"

\* a length that is a multiple of W spanning several words, both characters
\* appear, and the reserved extra word holds a set bit that is not rendered
C10_Witness ==
    /\ op = "fmt"
    /\ self.size % W = 0 /\ self.size >= 2 * W
    /\ self.mask[Len(self.mask)] # ZERO
    /\ \E j, k \in 1..Len(text) : text[j] = "1" /\ text[k] = "0"

\* C11: converting a mask to its transport record (big-endian bytes of
\* every word in word order, plus length) and reconstructing a mask from
\* that record succeeds and gives a mask equal to the original.
C11_SerdeRoundTrip ==
    op = "deserialize" => (res = "Ok" /\ eq(out, self))

\* several words, one of them unequal to its own byte reversal, and a set
\* bit in the last word
C11_Witness ==
    /\ op = "deserialize" /\ res = "Ok"
    /\ Len(self.mask) >= 2
    /\ \E i \in 1..Len(self.mask) : to_be_bytes(self.mask[i]) # to_le_bytes(self.mask[i])
    /\ self.mask[Len(self.mask)] # ZERO

\* the stored bits of m at logical indices >= length are all 0
padding_zero(m) ==
    \A i \in m.size..(Len(m.mask) * W - 1) : ~bit(m, i)

\* C12: after any sequence of public operations from zeros(size) or
\* ones(size), every stored bit at a logical index >= length is 0 (in the
\* mask and in every operator result), so count_ones() equals the number of
\* indices i < length with get(i) true.
C12_TailPaddingZero ==
    /\ padding_zero(self)
    /\ out # None => padding_zero(out)
    /\ op = "count_ones" =>
          count = Cardinality({i \in 0..(self.size - 1) : bit(self, i)})

\* the number of words of m is length / W + 1
capacity_ok(m) == Len(m.mask) = (m.size \div W) + 1

\* C13: after construction and after any sequence of mutating operations,
\* and for every result of a non-mutating operator, the number of words is
\* length / W + 1.
C13_Capacity ==
    /\ capacity_ok(self)
    /\ op \in {"bitor", "bitand", "bitxor", "not", "not_not", "shr", "shl"} =>
          capacity_ok(out)

\* an in-place OR with a longer operand grew the mask to a length that is a
\* multiple of W, so the last word is the reserved extra word
C13_Witness ==
    /\ op = "bitor_assign"
    /\ Len(self.mask) > Len(old.mask)
    /\ self.size % W = 0 /\ self.size > old.size
    /\ capacity_ok(self)

====
